---- MODULE Spec2Model ----
(***************************************************************************)
(* A model of read_matlab_variable.py: the generic MATLAB v7.3 decoder and *)
(* its timeseries reconstructor.  An HDF5 file is a tree of nodes; names   *)
(* and paths are sequences of one-character strings so that startswith,    *)
(* lstrip and the "/" joins of the source are computed, not assumed.       *)
(*                                                                         *)
(* Modelling conventions                                                   *)
(*   - sequences are 1-based; MCOS slot numbers stay 0-based as in the     *)
(*     source, slot i being refs[i + 1];                                   *)
(*   - a reference is null, dangling ("bad": truthy, dereferencing raises) *)
(*     or the path of the object it points to;                             *)
(*   - every dataset has rank >= 1 (MATLAB never writes a rank-0 dataset); *)
(*   - /#subsystem#/MCOS, when present, is a 2-D reference dataset whose   *)
(*     first row is the slot vector.                                       *)
(***************************************************************************)
EXTENDS Integers, Sequences, FiniteSets, TLC

VARIABLES file, pc, arg, handles, events, outcome, seen, allocs, file2, outcome2, handed, scan

vars == <<file, pc, arg, handles, events, outcome, seen, allocs, file2, outcome2, handed, scan>>

(***************************************************************************)
(* Generic helpers                                                         *)
(***************************************************************************)
Range(s) == {s[i] : i \in 1..Len(s)}

Min2(a, b) == IF a <= b THEN a ELSE b

Max2(a, b) == IF a >= b THEN a ELSE b

RECURSIVE Product(_)
Product(s) == IF s = <<>> THEN 1 ELSE Head(s) * Product(Tail(s))

RECURSIVE FilterOnes(_)
FilterOnes(s) ==
  IF s = <<>> THEN <<>>
  ELSE IF Head(s) = 1 THEN FilterOnes(Tail(s))
       ELSE <<Head(s)>> \o FilterOnes(Tail(s))

CountOnes(s) == Cardinality({i \in 1..Len(s) : s[i] = 1})

(***************************************************************************)
(* Names and paths: sequences of characters                                *)
(***************************************************************************)
\* str.startswith('#')
StartsWithHash(name) == Len(name) > 0 /\ name[1] = "#"

\* str.lstrip('/')
RECURSIVE LStripSlash(_)
LStripSlash(s) ==
  IF s # <<>> /\ Head(s) = "/" THEN LStripSlash(Tail(s)) ELSE s

\* f"{a}/{b}"
JoinPath(a, b) == a \o <<"/">> \o b

\* the components of a path string, empty components dropped
RECURSIVE SplitPath(_, _)
SplitPath(s, cur) ==
  IF s = <<>> THEN (IF cur = <<>> THEN <<>> ELSE <<cur>>)
  ELSE IF Head(s) = "/"
       THEN (IF cur = <<>> THEN <<>> ELSE <<cur>>) \o SplitPath(Tail(s), <<>>)
       ELSE SplitPath(Tail(s), cur \o <<Head(s)>>)

\* code points of the characters the model uses, for string comparison
Ord(c) ==
  CASE c = "#" -> 35
    [] c = "/" -> 47
    [] c = "a" -> 97
    [] c = "b" -> 98
    [] c = "g" -> 103
    [] c = "r" -> 114
    [] c = "s" -> 115
    [] c = "t" -> 116
    [] c = "u" -> 117
    [] c = "v" -> 118
    [] c = "z" -> 122
    [] OTHER -> 63

\* Python's str <= str
RECURSIVE StrLeq(_, _)
StrLeq(a, b) ==
  IF a = <<>> THEN TRUE
  ELSE IF b = <<>> THEN FALSE
  ELSE IF Ord(Head(a)) < Ord(Head(b)) THEN TRUE
  ELSE IF Ord(Head(a)) > Ord(Head(b)) THEN FALSE
  ELSE StrLeq(Tail(a), Tail(b))

(***************************************************************************)
(* The HDF5 access layer: nodes, lookup, references                        *)
(***************************************************************************)
Missing == [kind |-> "missing"]

NullRef == [k |-> "null"]

BadRef == [k |-> "bad"]

ObjRef(p) == [k |-> "obj", p |-> p]

IsGroup(n) == n.kind = "group"

IsDataset(n) == n.kind = "dataset"

\* grp.keys(): the stored key order of a group
Keys(g) == [i \in 1..Len(g.items) |-> g.items[i][1]]

\* grp[key] for a key that is in the group
Child(g, key) ==
  LET i == CHOOSE j \in 1..Len(g.items) : g.items[j][1] = key IN g.items[i][2]

HasKey(g, key) == \E j \in 1..Len(g.items) : g.items[j][1] = key

RECURSIVE Walk(_, _)
Walk(node, comps) ==
  IF comps = <<>> THEN node
  ELSE IF ~IsGroup(node) THEN Missing
  ELSE IF ~HasKey(node, Head(comps)) THEN Missing
  ELSE Walk(Child(node, Head(comps)), Tail(comps))

\* f[path]; Missing when `path in f` is false
Lookup(f, path) == Walk(f, SplitPath(path, <<>>))

InFile(f, path) == Lookup(f, path) # Missing

\* bool(ref)
Truthy(ref) == ref.k # "null"

\* whether f[ref] raises
DerefRaises(f, ref) == ref.k # "obj" \/ ~InFile(f, ref.p)

\* f[ref] for a reference that dereferences
Deref(f, ref) == Lookup(f, ref.p)

(***************************************************************************)
(* Datasets                                                                *)
(***************************************************************************)
\* bytes per element of a dtype
ItemSize(dtype) ==
  CASE dtype = "u1" -> 1
    [] dtype = "u2" -> 2
    [] dtype = "u4" -> 4
    [] dtype = "f4" -> 4
    [] OTHER -> 8

\* ds.size
Size(ds) == Product(ds.shape)

\* whether ds[i, j] raises (0-based i, j)
Elem2Raises(ds, i, j) ==
  \/ Len(ds.shape) # 2
  \/ i >= ds.shape[1]
  \/ j >= ds.shape[2]

\* ds[i, j] of a 2-D dataset, row-major
Elem2(ds, i, j) == ds.data[i * ds.shape[2] + j + 1]

\* truthiness of attrs.get('MATLAB_empty', 0)
IsEmptyFlag(n) == n.empty

(***************************************************************************)
(* Values returned to the caller                                           *)
(***************************************************************************)
None == [t |-> "none"]

EmptyArray == [t |-> "array", shape |-> <<0>>, of |-> <<>>]

\* ds[:] of the node at `path`: the raw buffer with the stored shape
RawOf(path, ds) == [t |-> "array", shape |-> ds.shape, of |-> path]

\* arr.flatten()
Flatten(shape) == <<Product(shape)>>

\* a squeeze that drops no axis
SqueezeNone(shape) == shape

\* arr.squeeze()
Squeeze(shape) == FilterOnes(shape)

\* arr.T
RECURSIVE Reverse(_)
Reverse(s) == IF s = <<>> THEN <<>> ELSE Reverse(Tail(s)) \o <<Head(s)>>

\* the row-major offset of the 0-based index idx in an array of this shape
RECURSIVE RavelFrom(_, _, _, _)
RavelFrom(idx, shape, k, acc) ==
  IF k > Len(shape) THEN acc
  ELSE RavelFrom(idx, shape, k + 1, acc * shape[k] + idx[k])

Ravel(idx, shape) == RavelFrom(idx, shape, 1, 0)

\* the 0-based index of the row-major offset off, over the first k axes
RECURSIVE Unravel(_, _, _)
Unravel(off, shape, k) ==
  IF k = 0 THEN <<>>
  ELSE Unravel(off \div shape[k], shape, k - 1) \o <<off % shape[k]>>

\* the elements of data.T in row-major order: the element at offset k of
\* the result is the stored element at the reversed index
Transposed(shape, data) ==
  [k \in 1..Product(shape) |->
     data[Ravel(Reverse(Unravel(k - 1, Reverse(shape), Len(shape))), shape) + 1]]

(***************************************************************************)
(* Stage 1: the metadata probe                                             *)
(***************************************************************************)
\* 127 counted among the bytes of a run
IsPrintableWide(b) == 32 <= b /\ b <= 127

IsPrintable(b) == 32 <= b /\ b < 127

\* the inner while loop: the first index at or after i that ends the run
RECURSIVE RunEnd(_, _)
RunEnd(blob, i) ==
  IF i <= Len(blob) /\ IsPrintable(blob[i]) THEN RunEnd(blob, i + 1) ELSE i

\* little-endian bytes of one element
RECURSIVE LEBytes(_, _)
LEBytes(v, size) ==
  IF size = 0 THEN <<>> ELSE <<v % 256>> \o LEBytes(v \div 256, size - 1)

\* bytes(meta_blob[start:i]).decode('ascii', errors='ignore')
RECURSIVE DecodeRun(_, _)
DecodeRun(run, size) ==
  IF run = <<>> THEN <<>>
  ELSE LET bs == LEBytes(Head(run), size)
       IN  SelectSeq(bs, LAMBDA b : b < 128) \o DecodeRun(Tail(run), size)

\* the outer while loop: the property names ending in '_'
RECURSIVE ScanProps(_, _, _)
ScanProps(blob, size, i) ==
  IF i > Len(blob) THEN {}
  ELSE IF IsPrintable(blob[i])
       THEN LET e == RunEnd(blob, i)
                s == DecodeRun(SubSeq(blob, i, e - 1), size)
            IN  (IF e - i >= 2 /\ s[Len(s)] = 95 THEN {s} ELSE {})
                  \cup ScanProps(blob, size, e)
       ELSE ScanProps(blob, size, i + 1)

TimeProp == <<84, 105, 109, 101, 95>>

DataProp == <<68, 97, 116, 97, 95>>

DefaultStructure == [has_time |-> TRUE, has_data |-> TRUE, columns_per_ts |-> 2]

\* whether reading and scanning slot 0 raises
MetaRaises(f, refs) ==
  IF Len(refs) = 0 THEN TRUE
  ELSE IF DerefRaises(f, refs[1]) THEN TRUE
  ELSE IF ~IsDataset(Deref(f, refs[1])) THEN TRUE
  ELSE Deref(f, refs[1]).dtype = "ref"

_get_timeseries_structure_from_metadata(f, refs) ==
  IF MetaRaises(f, refs) THEN DefaultStructure
  ELSE LET ds == Deref(f, refs[1])
           props == ScanProps(ds.data, ItemSize(ds.dtype), 1)
           has_time == TimeProp \in props
           has_data == DataProp \in props
       IN  [has_time |-> has_time, has_data |-> has_data,
            columns_per_ts |-> (IF has_time THEN 1 ELSE 0) + (IF has_data THEN 1 ELSE 0)]

(***************************************************************************)
(* Stage 2: timeseries enumeration                                         *)
(***************************************************************************)
\* whether int(item[0, 4]) raises
RefIdxRaises(ds) == Elem2Raises(ds, 0, 4) \/ ds.dtype = "ref"

RECURSIVE find_timeseries_recursive(_, _, _)
find_timeseries_recursive(group, path_prefix, i) ==
  IF i > Len(group.items) THEN <<>>
  ELSE LET key == group.items[i][1]
           item == group.items[i][2]
           item_path == IF path_prefix # <<>> THEN JoinPath(path_prefix, key) ELSE key
           here ==
             IF StartsWithHash(key) THEN <<>>
             ELSE IF IsDataset(item)
                  THEN (IF item.cls = "timeseries" /\ ~RefIdxRaises(item)
                        THEN << <<item_path, Elem2(item, 0, 4)>> >>
                        ELSE <<>>)
                  ELSE find_timeseries_recursive(item, item_path, 1)
       IN  here \o find_timeseries_recursive(group, path_prefix, i + 1)

\* the enumeration without the descent into groups
TsListTopLevel(f) ==
  find_timeseries_recursive(
    [f EXCEPT !.items = SelectSeq(f.items, LAMBDA it : IsDataset(it[2]))], <<>>, 1)

TsList(f) == find_timeseries_recursive(f, <<>>, 1)

(***************************************************************************)
(* Stage 3: the stable sort by reference index                             *)
(***************************************************************************)
RECURSIVE InsertByRef(_, _)
InsertByRef(sorted, x) ==
  IF sorted = <<>> THEN <<x>>
  ELSE IF Head(sorted)[2] <= x[2]
       THEN <<Head(sorted)>> \o InsertByRef(Tail(sorted), x)
       ELSE <<x>> \o sorted

\* the list left in enumeration order
Unsorted(s) == s

RECURSIVE SortByRef(_)
SortByRef(s) ==
  IF s = <<>> THEN <<>>
  ELSE InsertByRef(SortByRef(SubSeq(s, 1, Len(s) - 1)), s[Len(s)])

(***************************************************************************)
(* Stage 4: the candidate time slots                                       *)
(***************************************************************************)
\* the (1, N) float64 test, N >= 2
MinSamples == 2

IsRowVector(obj) ==
  Len(obj.shape) = 2 /\ obj.shape[1] = 1 /\ obj.shape[2] >= MinSamples

\* the test of slot i without the look at MATLAB_empty
IsCandidateSlotIgnoringEmpty(f, refs, i) ==
  /\ Truthy(refs[i + 1])
  /\ ~DerefRaises(f, refs[i + 1])
  /\ IsDataset(Deref(f, refs[i + 1]))
  /\ Deref(f, refs[i + 1]).dtype = "f8"
  /\ IsRowVector(Deref(f, refs[i + 1]))

\* the body of the loop over slot i (0-based): whether i is appended
IsCandidateSlot(f, refs, i) ==
  /\ Truthy(refs[i + 1])
  /\ ~DerefRaises(f, refs[i + 1])
  /\ LET obj == Deref(f, refs[i + 1])
     IN  /\ IsDataset(obj)
         /\ obj.dtype # "u1"
         /\ ~IsEmptyFlag(obj)
         /\ obj.dtype = "f8"
         /\ IsRowVector(obj)

RECURSIVE AllArrays(_, _, _)
AllArrays(f, refs, i) ==
  IF i >= Len(refs) THEN <<>>
  ELSE (IF IsCandidateSlot(f, refs, i) THEN <<i>> ELSE <<>>)
         \o AllArrays(f, refs, i + 1)

candidate_time_slots(f, refs) == AllArrays(f, refs, 1)

(***************************************************************************)
(* Stage 5: stride selection                                               *)
(***************************************************************************)
\* all_arrays[::2]
EveryOther(s) == [k \in 1..((Len(s) + 1) \div 2) |-> s[2 * k - 1]]

\* the stride taken whenever the metadata names both properties
UseStrideByColumns(expected_columns, nts, ncand) == expected_columns >= 2

\* len(all_arrays) >= len(ts_sorted) * 1.5
UseStride(expected_columns, nts, ncand) ==
  expected_columns >= 2 /\ nts > 0 /\ 2 * ncand >= 3 * nts

slot_indices(f, refs) ==
  LET all == candidate_time_slots(f, refs)
      st == _get_timeseries_structure_from_metadata(f, refs)
  IN  IF UseStride(st.columns_per_ts, Len(TsList(f)), Len(all))
      THEN EveryOther(all)
      ELSE all

(***************************************************************************)
(* Stage 6: the allocation table, a function from paths to slots           *)
(***************************************************************************)
EmptyAllocation == [n \in {} |-> 0]

\* every timeseries given the first selected slot
AllocateFirstSlot(ts_sorted, slots) ==
  [n \in {ts_sorted[k][1] : k \in {j \in 1..Len(ts_sorted) : j - 1 < Len(slots)}} |->
     slots[1]]

AllocateSorted(ts_sorted, slots) ==
  LET placed == {k \in 1..Len(ts_sorted) : k - 1 < Len(slots)}
      names == {ts_sorted[k][1] : k \in placed}
  IN  [n \in names |->
         slots[CHOOSE k \in placed :
                 ts_sorted[k][1] = n /\ \A j \in placed : ts_sorted[j][1] = n => j <= k]]

\* an allocation that leaves out the timeseries earlier calls have read
BuildAllocationOnce(f, refs) ==
  IF ~_get_timeseries_structure_from_metadata(f, refs).has_time
  THEN EmptyAllocation
  ELSE AllocateSorted(
         SortByRef(SelectSeq(TsList(f), LAMBDA t : \A c \in seen : c.name # t[1])),
         slot_indices(f, refs))

_build_timeseries_allocation(f, refs) ==
  IF ~_get_timeseries_structure_from_metadata(f, refs).has_time
  THEN EmptyAllocation
  ELSE AllocateSorted(SortByRef(TsList(f)), slot_indices(f, refs))

(***************************************************************************)
(* Stage 7: data pairing, and the fallback extraction                      *)
(***************************************************************************)
\* range(1, 20) of the pairing loop
DataWindow == 20

\* range(1, 10) of the fallback's pairing loop
FallbackDataWindow == 10

\* range(max(1, ref_idx - 5), min(len(mcos_refs), ref_idx + 20))
FallbackBefore == 5

FallbackAfter == 20

\* results of process_timeseries: [st, val, al], al being the allocation
\* tables the call computed
Ok(v, al) == [st |-> "ok", val |-> v, al |-> al]

Raise(what, al) == [st |-> "raise", val |-> [t |-> what], al |-> al]

\* the {'Time': time_data.flatten(), 'Data': data.squeeze()} dictionary
TsPair(f, refs, time_idx, data_idx) ==
  LET t == Deref(f, refs[time_idx + 1])
      d == Deref(f, refs[data_idx + 1])
  IN  [t |-> "ts",
       Time |-> [shape |-> Flatten(t.shape), slot |-> time_idx, of |-> refs[time_idx + 1].p],
       Data |-> [shape |-> Squeeze(d.shape), slot |-> data_idx, of |-> refs[data_idx + 1].p]]

\* the pairing loop without the test `n_samples in data_obj.shape`
RECURSIVE FindDataAnyShape(_, _, _, _, _, _)
FindDataAnyShape(f, refs, base, n, offset, window) ==
  IF offset >= window THEN [st |-> "none"]
  ELSE IF base + offset >= Len(refs) \/ ~Truthy(refs[base + offset + 1])
       THEN FindDataAnyShape(f, refs, base, n, offset + 1, window)
       ELSE IF DerefRaises(f, refs[base + offset + 1]) THEN [st |-> "raise"]
       ELSE IF ~IsDataset(Deref(f, refs[base + offset + 1]))
                 \/ Deref(f, refs[base + offset + 1]).dtype # "f8"
            THEN FindDataAnyShape(f, refs, base, n, offset + 1, window)
            ELSE [st |-> "found", idx |-> base + offset]

\* the loop over offsets: the first slot after `base` holding a float64
\* dataset with n among its dimensions; "raise" when a dereference raises
RECURSIVE FindData(_, _, _, _, _, _)
FindData(f, refs, base, n, offset, window) ==
  IF offset >= window THEN [st |-> "none"]
  ELSE LET idx == base + offset
       IN  IF idx >= Len(refs) \/ ~Truthy(refs[idx + 1])
           THEN FindData(f, refs, base, n, offset + 1, window)
           ELSE IF DerefRaises(f, refs[idx + 1]) THEN [st |-> "raise"]
           ELSE LET data_obj == Deref(f, refs[idx + 1])
                IN  IF ~IsDataset(data_obj) \/ data_obj.dtype # "f8"
                    THEN FindData(f, refs, base, n, offset + 1, window)
                    ELSE IF n \in Range(data_obj.shape)
                         THEN [st |-> "found", idx |-> idx]
                         ELSE FindData(f, refs, base, n, offset + 1, window)

\* the loop over search_idx; every exception inside one iteration is swallowed
RECURSIVE FallbackSearch(_, _, _, _)
FallbackSearch(f, refs, search_idx, stop) ==
  IF search_idx >= stop THEN None
  ELSE IF ~Truthy(refs[search_idx + 1]) \/ DerefRaises(f, refs[search_idx + 1])
       THEN FallbackSearch(f, refs, search_idx + 1, stop)
       ELSE LET obj == Deref(f, refs[search_idx + 1])
            IN  IF IsDataset(obj) /\ obj.dtype = "f8" /\ IsRowVector(obj)
                THEN LET d == FindData(f, refs, search_idx, obj.shape[2], 1,
                                       FallbackDataWindow)
                     IN  IF d.st = "found"
                         THEN TsPair(f, refs, search_idx, d.idx)
                         ELSE FallbackSearch(f, refs, search_idx + 1, stop)
                ELSE FallbackSearch(f, refs, search_idx + 1, stop)

_fallback_timeseries_extraction(f, ts_var, refs) ==
  IF Len(ts_var.shape) < 2 THEN None
  ELSE IF ts_var.shape[2] < 5 THEN None
  ELSE IF RefIdxRaises(ts_var) THEN None
  ELSE LET ref_idx == Elem2(ts_var, 0, 4)
       IN  FallbackSearch(f, refs, Max2(1, ref_idx - FallbackBefore),
                          Min2(Len(refs), ref_idx + FallbackAfter))

SubsystemName == <<"#", "s">>

McosName == <<"m">>

McosPath == JoinPath(SubsystemName, McosName)

HasMcos(f) ==
  /\ InFile(f, SubsystemName)
  /\ IsGroup(Lookup(f, SubsystemName))
  /\ InFile(f, McosPath)

\* mcos[0][:]
McosRefs(f) == Lookup(f, McosPath).data

\* the end of process_timeseries: d is what the pairing loop found
PairOrFallback(f, ts_var, refs, time_idx, al, d) ==
  CASE d.st = "found" -> Ok(TsPair(f, refs, time_idx, d.idx), al)
    [] d.st = "raise" -> Raise("deref", al)
    [] OTHER -> Ok(_fallback_timeseries_extraction(f, ts_var, refs), al)

\* the validation of time_obj, then the pairing loop
PairingLoop(f, refs, time_idx, time_obj) ==
  IF ~IsDataset(time_obj) THEN [st |-> "none"]
  ELSE IF time_obj.dtype # "f8" THEN [st |-> "none"]
  ELSE IF Size(time_obj) = 0 THEN [st |-> "none"]
  ELSE FindData(f, refs, time_idx,
                IF Len(time_obj.shape) = 2 THEN time_obj.shape[2] ELSE time_obj.shape[1],
                1, DataWindow)

\* the part of process_timeseries after the allocation table is built
LookupAllocation(f, ts_varname, ts_var, refs, allocation) ==
  IF ts_varname \notin DOMAIN allocation
  THEN Ok(_fallback_timeseries_extraction(f, ts_var, refs), {allocation})
  ELSE PairOrFallback(f, ts_var, refs, allocation[ts_varname], {allocation},
                      PairingLoop(f, refs, allocation[ts_varname],
                                  Deref(f, refs[allocation[ts_varname] + 1])))

\* Ok(pair), Ok(None), or Raise when the pairing loop meets a dangling reference
process_timeseries(f, ts_varname) ==
  IF ~InFile(f, ts_varname) THEN Ok(None, {})
  ELSE IF ~IsDataset(Lookup(f, ts_varname)) THEN Ok(None, {})
  ELSE IF ~HasMcos(f) THEN Ok(None, {})
  ELSE LookupAllocation(f, ts_varname, Lookup(f, ts_varname), McosRefs(f),
                        _build_timeseries_allocation(f, McosRefs(f)))

(***************************************************************************)
(* The generic value decoder.  Every operator returns                      *)
(*   [st |-> "ok" or "raise", val |-> the value or the exception,          *)
(*    ev |-> the "open"/"close" events of the file handles it opened,      *)
(*    al |-> the allocation tables computed on the way,                    *)
(*    ts |-> the paths process_group handed to process_timeseries]         *)
(***************************************************************************)
Done(v) == [st |-> "ok", val |-> v, ev |-> <<>>, al |-> {}, ts |-> {}]

Throw(what) ==
  [st |-> "raise", val |-> [t |-> what], ev |-> <<>>, al |-> {}, ts |-> {}]

\* the outcome `r` with the value replaced by `v` when it is a normal return
Wrap(r, v) == [r EXCEPT !.val = IF r.st = "ok" THEN v ELSE r.val]

\* a handle that stays open when the body raises
WithFileLeaky(body) ==
  [body EXCEPT !.ev = IF body.st = "raise" THEN <<"open">> \o body.ev
                      ELSE <<"open">> \o body.ev \o <<"close">>]

\* with h5py.File(filename, 'r') as f: body -- the handle is released on
\* every exit of the body, normal or exceptional
WithFile(body) == [body EXCEPT !.ev = <<"open">> \o body.ev \o <<"close">>]

NumericClasses ==
  {"double", "single", "int8", "int16", "int32", "int64",
   "uint8", "uint16", "uint32", "uint64", "logical"}

\* the numeric branch with the buffer reinterpreted in the reversed shape
\* instead of transposed
NumericValueReshaped(name, ds) ==
  IF Len(ds.shape) = 1
  THEN [t |-> "array", shape |-> ds.shape, of |-> name, xf |-> "raw", data |-> ds.data]
  ELSE IF CountOnes(ds.shape) >= Len(ds.shape) - 1
       THEN [t |-> "array", shape |-> Squeeze(ds.shape), of |-> name, xf |-> "squeeze",
             data |-> ds.data]
       ELSE [t |-> "array", shape |-> Reverse(ds.shape), of |-> name, xf |-> "T",
             data |-> ds.data]

\* the numeric branch of process_dataset
NumericValue(name, ds) ==
  IF Len(ds.shape) = 1
  THEN [t |-> "array", shape |-> ds.shape, of |-> name, xf |-> "raw", data |-> ds.data]
  ELSE IF CountOnes(ds.shape) >= Len(ds.shape) - 1
       THEN [t |-> "array", shape |-> Squeeze(ds.shape), of |-> name, xf |-> "squeeze",
             data |-> ds.data]
       ELSE [t |-> "array", shape |-> Reverse(ds.shape), of |-> name, xf |-> "T",
             data |-> Transposed(ds.shape, ds.data)]

\* the events of the statements outs[1..k], in order
RECURSIVE EventsUpTo(_, _)
EventsUpTo(outs, k) ==
  IF k = 0 THEN <<>> ELSE EventsUpTo(outs, k - 1) \o outs[k].ev

\* a loop whose i-th iteration has the outcome outs[i]: it runs the
\* iterations in order and stops at the first one that raises
RunLoop(outs) ==
  LET raising == {i \in 1..Len(outs) : outs[i].st = "raise"}
      last == IF raising = {} THEN Len(outs)
              ELSE CHOOSE i \in raising : \A j \in raising : i <= j
  IN  [st |-> IF raising = {} THEN "ok" ELSE "raise",
       val |-> IF raising = {} THEN [i \in 1..Len(outs) |-> outs[i].val]
               ELSE outs[last].val,
       ev |-> EventsUpTo(outs, last),
       al |-> UNION {outs[i].al : i \in 1..last},
       ts |-> UNION {outs[i].ts : i \in 1..last}]

\* one statement after another
Then(one, rest) ==
  IF one.st = "raise" THEN one
  ELSE [rest EXCEPT !.ev = one.ev \o rest.ev, !.al = one.al \cup rest.al,
                    !.ts = one.ts \cup rest.ts]

EmptyStruct == [t |-> "struct", fields |-> <<>>]

\* the objects a node's decoding descends into, in order: the children of a
\* group, the targets of a cell's references, the group a struct reference
\* points to.  A null cell entry is "none", an entry that cannot be
\* dereferenced "raise".
KidsOf(f, name, node) ==
  IF IsGroup(node)
  THEN [i \in 1..Len(node.items) |->
          [k |-> "node", name |-> JoinPath(name, node.items[i][1]),
           node |-> node.items[i][2]]]
  ELSE IF node.dtype # "ref" \/ IsEmptyFlag(node) THEN <<>>
  ELSE IF node.cls = "cell"
       THEN [i \in 1..Len(node.data) |->
               IF ~Truthy(node.data[i]) THEN [k |-> "none"]
               ELSE IF DerefRaises(f, node.data[i]) THEN [k |-> "raise"]
               ELSE [k |-> "node", name |-> <<"/">> \o node.data[i].p,
                     node |-> Deref(f, node.data[i])]]
  ELSE IF node.cls = "struct"
            /\ node.shape[1] > 0
            /\ ~Elem2Raises(node, 0, 0)
            /\ Truthy(Elem2(node, 0, 0))
            /\ ~DerefRaises(f, Elem2(node, 0, 0))
            /\ IsGroup(Deref(f, Elem2(node, 0, 0)))
       THEN << [k |-> "node", name |-> <<"/">> \o Elem2(node, 0, 0).p,
                node |-> Deref(f, Elem2(node, 0, 0))] >>
  ELSE <<>>

\* outs[i]: the outcome of decoding the target of the i-th reference
CellResult(body) == Wrap(body, [t |-> "cell", items |-> body.val])

process_cell_array(f, name, ds, outs) ==
  IF ds.dtype = "ref" THEN WithFile(CellResult(RunLoop(outs)))
  ELSE Done(RawOf(name, ds))

\* outs[1]: the outcome of process_group on the group ds[0, 0] points to
process_struct(f, name, ds, outs) ==
  IF ds.dtype = "ref"
  THEN WithFile(
         IF ds.shape[1] > 0
         THEN IF Elem2Raises(ds, 0, 0) THEN Throw("index")
              ELSE IF ~Truthy(Elem2(ds, 0, 0)) THEN Done(EmptyStruct)
              ELSE IF DerefRaises(f, Elem2(ds, 0, 0)) THEN Throw("deref")
              ELSE IF IsGroup(Deref(f, Elem2(ds, 0, 0))) THEN outs[1]
              ELSE Done(EmptyStruct)
         ELSE Done(EmptyStruct))
  ELSE Done(RawOf(name, ds))

process_dataset(f, name, ds, outs) ==
  IF IsEmptyFlag(ds) THEN Done(EmptyArray)
  ELSE IF ds.cls \in {"char", "string"} THEN Done([t |-> "str", of |-> name])
  ELSE IF ds.cls = "cell" THEN process_cell_array(f, name, ds, outs)
  ELSE IF ds.cls \in NumericClasses THEN Done(NumericValue(name, ds))
  ELSE IF ds.cls = "struct" THEN process_struct(f, name, ds, outs)
  ELSE Done(RawOf(name, ds))

\* the path process_group hands to process_timeseries for the child `key`
ItemPath(grp_name, key) == JoinPath(LStripSlash(grp_name), key)

\* one iteration of the loop of process_group; out: the outcome of
\* process_dataset or process_group on the child
TimeseriesItem(item_path, ts, out) ==
  LET via == [Done(ts.val) EXCEPT !.al = ts.al, !.ts = {item_path}]
  IN  IF ts.st = "raise" THEN [via EXCEPT !.st = "raise"]
      ELSE IF ts.val # None THEN via
      ELSE Then(via, out)

GroupItem(f, name, key, item, out) ==
  IF IsDataset(item) /\ item.cls = "timeseries"
  THEN TimeseriesItem(ItemPath(name, key), process_timeseries(f, ItemPath(name, key)), out)
  ELSE out

\* outs[i]: the outcome of decoding the i-th child
GroupResult(grp, body) ==
  Wrap(body, [t |-> "struct",
              fields |-> [i \in 1..Len(grp.items) |-> <<grp.items[i][1], body.val[i]>>]])

process_group(f, name, grp, outs) ==
  GroupResult(grp,
    RunLoop([i \in 1..Len(grp.items) |->
               GroupItem(f, name, grp.items[i][1], grp.items[i][2], outs[i])]))

\* process_group(node) for a group, process_dataset(node) for a dataset,
\* the recursive calls being those on KidsOf
RECURSIVE Decode(_, _, _)
RECURSIVE DecodeKids(_, _)
Decode(f, name, node) ==
  IF IsGroup(node) THEN process_group(f, name, node, DecodeKids(f, KidsOf(f, name, node)))
  ELSE process_dataset(f, name, node, DecodeKids(f, KidsOf(f, name, node)))

DecodeKids(f, kids) ==
  [i \in 1..Len(kids) |->
     IF kids[i].k = "node" THEN Decode(f, kids[i].name, kids[i].node)
     ELSE IF kids[i].k = "none" THEN Done(None)
     ELSE Throw("deref")]

(***************************************************************************)
(* read_matlab_variable: the main function                                 *)
(***************************************************************************)
\* the list without the filter on internal names
AvailableAll(f) == Keys(f)

\* [k for k in f.keys() if not k.startswith('#')]
Available(f) == SelectSeq(Keys(f), LAMBDA k : ~StartsWithHash(k))

\* matlab_class as computed for the top-level node
TopClass(var) ==
  IF IsGroup(var) THEN (IF var.cls = "none" THEN "struct" ELSE var.cls) ELSE var.cls

\* the branch without the raw-data fallback: the failure reaches the caller
ReadTimeseriesNoFallback(var_name, var, r) ==
  LET via == [Done(r.val) EXCEPT !.al = r.al]
  IN  IF r.st = "raise" \/ r.val = None THEN [via EXCEPT !.st = "raise"] ELSE via

\* the branch taken when matlab_class == 'timeseries'
ReadTimeseries(var_name, var, r) ==
  LET via == [Done(r.val) EXCEPT !.al = r.al]
  IN  IF r.st = "raise" THEN [via EXCEPT !.st = "raise"]
      ELSE IF r.val # None
           THEN (IF r.val.Data.shape = <<>>
                 THEN [via EXCEPT !.st = "raise", !.val = [t |-> "len"]]
                 ELSE via)
           ELSE IF IsGroup(var) THEN [via EXCEPT !.st = "raise", !.val = [t |-> "slice"]]
                ELSE [via EXCEPT !.val = RawOf(<<"/">> \o var_name, var)]

\* the dispatch on the top-level node
Dispatch(f, var_name, var) ==
  IF TopClass(var) = "timeseries"
  THEN ReadTimeseries(var_name, var, process_timeseries(f, var_name))
  ELSE Decode(f, <<"/">> \o var_name, var)

\* the body of the outer with-block
MainBody(f, var_name) ==
  IF ~InFile(f, var_name)
  THEN [Throw("notfound") EXCEPT
          !.val = [t |-> "notfound", name |-> var_name, available |-> Available(f)]]
  ELSE Dispatch(f, var_name, Lookup(f, var_name))

read_matlab_variable(f, var_name) == WithFile(MainBody(f, var_name))

(***************************************************************************)
(* list_matlab_variables                                                   *)
(***************************************************************************)
\* a group without the attribute reported like a dataset without it
GroupClassUnknown(item) == IF item.cls = "none" THEN "unknown" ELSE item.cls

\* item.attrs.get('MATLAB_class', b'struct').decode('utf-8')
GroupClass(item) == IF item.cls = "none" THEN "struct" ELSE item.cls

\* item.attrs.get('MATLAB_class', b'unknown').decode('utf-8')
DatasetClass(item) == IF item.cls = "none" THEN "unknown" ELSE item.cls

\* the shape part of a numeric entry: "1D array, length n", or the axis
\* sizes in MATLAB order joined by the multiplication sign
ShapeText(shape) ==
  IF Len(shape) = 1 THEN [form |-> "1d", dims |-> <<shape[1]>>]
  ELSE IF Len(shape) = 2 THEN [form |-> "nd", dims |-> <<shape[2], shape[1]>>]
  ELSE [form |-> "nd", dims |-> Reverse(shape)]

PlainText == [form |-> "plain", dims |-> <<>>]

\* the string stored for one top-level item: the class, then the shape part
ListEntry(item) ==
  IF IsGroup(item) THEN [cls |-> GroupClass(item), text |-> PlainText]
  ELSE IF DatasetClass(item) \in NumericClasses
       THEN [cls |-> DatasetClass(item), text |-> ShapeText(item.shape)]
       ELSE [cls |-> DatasetClass(item), text |-> PlainText]

\* the loop over f.keys(), from the i-th key on
RECURSIVE ListFrom(_, _)
ListFrom(f, i) ==
  IF i > Len(f.items) THEN <<>>
  ELSE (IF StartsWithHash(f.items[i][1]) THEN <<>>
        ELSE << <<f.items[i][1], ListEntry(f.items[i][2])>> >>)
         \o ListFrom(f, i + 1)

list_matlab_variables(f) ==
  WithFile(Done([t |-> "listing", entries |-> ListFrom(f, 1)]))

(***************************************************************************)
(* Input files.  '#refs#' is abbreviated "#r", '#subsystem#' "#s" and      *)
(* 'MCOS' "m"; variable names are one character long.                      *)
(***************************************************************************)
\* the longest MCOS payload vector (slots 1..K) the inputs contain
MaxSlots == 3

\* the most read calls made on one file
MaxCalls == 2

NameA == <<"a">>

NameB == <<"b">>

NameG == <<"g">>

NameU == <<"u">>

NameZ == <<"z">>

RefsName == <<"#", "r">>

Ds(cls, dtype, shape, data, empty) ==
  [kind |-> "dataset", cls |-> cls, dtype |-> dtype, shape |-> shape,
   data |-> data, empty |-> empty]

Grp(cls, items) == [kind |-> "group", cls |-> cls, items |-> items]

\* a timeseries dataset: the (1, 6) uint32 tuple with the reference index at [0, 4]
TsDs(ref_idx) == Ds("timeseries", "u4", <<1, 6>>, <<0, 0, 0, 0, ref_idx, 0>>, FALSE)

\* a timeseries dataset whose tuple is too short to hold a reference index
TsShort == Ds("timeseries", "u4", <<1, 4>>, <<0, 0, 0, 0>>, FALSE)

TimeBlob == TimeProp

TimeDataBlob == TimeProp \o <<0>> \o DataProp

DataBlob == <<0, 3>> \o DataProp \o <<0>>

MetaKinds == {"TD", "T", "D"}

Blob(bytes) == Ds("uint8", "u1", <<1, Len(bytes)>>, bytes, FALSE)

MetaObj(kind) ==
  CASE kind = "TD" -> Blob(TimeDataBlob)
    [] kind = "T" -> Blob(TimeBlob)
    [] kind = "D" -> Blob(DataBlob)

\* what an MCOS payload slot can hold
SlotKinds == {"null", "bad", "t2", "t3", "d3"}

SlotObj(kind) ==
  CASE kind = "t2" -> Ds("double", "f8", <<1, 2>>, <<>>, FALSE)
    [] kind = "t3" -> Ds("double", "f8", <<1, 3>>, <<>>, FALSE)
    [] kind = "d3" -> Ds("double", "f8", <<3, 1>>, <<>>, FALSE)
    [] kind = "e2" -> Ds("double", "f8", <<1, 2>>, <<>>, TRUE)
    [] kind = "u1" -> Ds("uint8", "u1", <<1, 2>>, <<0, 0>>, FALSE)
    [] kind = "grp" -> Grp("none", <<>>)
    [] kind = "t1" -> Ds("double", "f8", <<1, 1>>, <<>>, FALSE)
    [] kind = "s2" -> Ds("single", "f4", <<1, 2>>, <<>>, FALSE)
    [] kind = "v2" -> Ds("double", "f8", <<2>>, <<>>, FALSE)
    [] kind = "c2" -> Ds("double", "f8", <<1, 2, 1>>, <<>>, FALSE)

SlotChars ==
  <<"z", "a", "b", "g", "r", "s", "t", "u", "v", "c", "d", "e", "f", "h", "i", "j",
    "k", "l", "m", "n", "o", "p", "q">>

\* the key under '#refs#' of the object slot i (0-based) points to
SlotKey(i) == <<SlotChars[i + 1]>>

SlotRef(kinds, i) ==
  CASE kinds[i + 1] = "null" -> NullRef
    [] kinds[i + 1] = "bad" -> BadRef
    [] OTHER -> ObjRef(JoinPath(RefsName, SlotKey(i)))

SlotObjOf(kind) == IF kind \in MetaKinds THEN MetaObj(kind) ELSE SlotObj(kind)

\* kinds: the kind of every slot, slot 0 (the metadata blob) first
RECURSIVE SlotItems(_, _)
SlotItems(kinds, i) ==
  IF i >= Len(kinds) THEN <<>>
  ELSE (IF kinds[i + 1] \in {"null", "bad"} THEN <<>>
        ELSE << <<SlotKey(i), SlotObjOf(kinds[i + 1])>> >>)
         \o SlotItems(kinds, i + 1)

McosDs(kinds) ==
  Ds("none", "ref", <<1, Len(kinds)>>, [i \in 1..Len(kinds) |-> SlotRef(kinds, i - 1)],
     FALSE)

\* a file: the variables, then '#refs#' and '#subsystem#/MCOS'
McosFile(vars_, extra, kinds) ==
  Grp("none", vars_ \o
      << <<RefsName, Grp("none", SlotItems(kinds, 0) \o extra)>>,
         <<SubsystemName, Grp("none", << <<McosName, McosDs(kinds)>> >>)>> >>)

\* a file without the MCOS subsystem
PlainFile(vars_, extra) ==
  Grp("none", << <<RefsName, Grp("none", extra)>> >> \o vars_)

SlotVectors == UNION {[1..k -> SlotKinds] : k \in 0..MaxSlots}

\* the timeseries variables of the reconstruction inputs
TsVariables ==
  { << <<NameA, TsDs(1)>> >>,
    << <<NameA, TsDs(1)>>, <<NameB, TsDs(2)>> >>,
    << <<NameA, TsDs(2)>>, <<NameB, TsDs(1)>> >>,
    << <<NameB, TsDs(2)>>, <<NameA, TsDs(2)>> >>,
    << <<NameA, TsShort>>, <<NameB, TsDs(1)>> >>,
    << <<NameA, TsShort>> >>,
    << <<NameG, Grp("none", << <<NameU, TsDs(1)>> >>)>>, <<NameA, TsDs(3)>> >> }

\* one timeseries whose Time slot is slot 1, then `gap` null slots, then a
\* float64 slot with the same N
WindowFile(gap) ==
  McosFile(<< <<NameA, TsDs(1)>> >>, <<>>,
           <<"TD", "t2">> \o [i \in 1..gap |-> "null"] \o <<"t2">>)

\* the second payload at the last slot of the pairing window and just past it
WindowFiles == {WindowFile(DataWindow - 2), WindowFile(DataWindow - 1)}

\* a key under '#refs#' that no MCOS slot uses
TargetNum == <<"t">>

\* a name starting with '#' inside a group
HiddenName == <<"#", "u">>

\* layouts for the enumeration: three levels of groups; a '#' name inside a
\* group; timeseries without a reference index at two levels
EnumVariables ==
  { << <<NameG, Grp("none", << <<NameU, TsDs(2)>>,
                               <<NameB, Grp("none", << <<NameA, TsDs(1)>> >>)>> >>)>>,
       <<NameA, TsDs(3)>> >>,
    << <<NameB, TsDs(2)>>,
       <<NameG, Grp("none", << <<HiddenName, TsDs(1)>>, <<NameU, TsDs(3)>> >>)>> >>,
    << <<NameA, TsShort>>,
       <<NameG, Grp("none", << <<NameU, TsShort>>, <<NameB, TsDs(1)>> >>)>> >> }

\* the layouts over full payload vectors, with one more timeseries dataset
\* stored under '#refs#'
EnumFiles ==
  {McosFile(v, << <<TargetNum, TsDs(1)>> >>, <<"TD">> \o sv) :
     v \in EnumVariables, sv \in [1..MaxSlots -> {"t2", "t3"}]}

TsFiles ==
  {McosFile(v, <<>>, <<m>> \o sv) : v \in TsVariables, m \in MetaKinds, sv \in SlotVectors}
    \cup WindowFiles \cup EnumFiles

\* the names a caller asks for
Requested == {NameA, NameB, NameG, NameZ}

\* the objects under '#refs#' that cells and struct references point to
TargetGroup == <<"u">>

TargetCell == <<"v">>

RefTo(key) == ObjRef(JoinPath(RefsName, key))

Matrix == Ds("double", "f8", <<2, 3>>, <<1, 2, 3, 4, 5, 6>>, FALSE)

Targets ==
  << <<TargetNum, Matrix>>,
     <<TargetGroup, Grp("none", << <<NameU, Ds("double", "f8", <<3>>, <<7, 8, 9>>, FALSE)>>,
                                   <<NameB, TsDs(2)>> >>)>>,
     <<TargetCell, Ds("cell", "ref", <<1, 1>>, <<RefTo(TargetNum)>>, FALSE)>> >>

CellOf(refs) == Ds("cell", "ref", <<1, Len(refs)>>, refs, FALSE)

StructRef(shape, refs) == Ds("struct", "ref", shape, refs, FALSE)

\* the kinds of top-level variable of the decoder inputs
VarKinds ==
  {"num", "chr", "empty", "nocls", "cell", "cellNull", "cellBad", "cellNest",
   "sref", "srefNull", "srefBad", "srefNoCol", "srefToDs", "grp", "grpDeep", "grpTs",
   "ts"}

VarNode(kind) ==
  CASE kind = "num" -> Matrix
    [] kind = "chr" -> Ds("char", "u2", <<1, 2>>, <<104, 105>>, FALSE)
    [] kind = "empty" -> Ds("double", "u8", <<2>>, <<0, 0>>, TRUE)
    [] kind = "nocls" -> Ds("none", "f8", <<2>>, <<>>, FALSE)
    [] kind = "cell" -> CellOf(<<RefTo(TargetNum), RefTo(TargetGroup)>>)
    [] kind = "cellNull" -> CellOf(<<NullRef, RefTo(TargetNum)>>)
    [] kind = "cellBad" -> CellOf(<<RefTo(TargetNum), BadRef>>)
    [] kind = "cellNest" -> CellOf(<<RefTo(TargetCell), RefTo(TargetCell)>>)
    [] kind = "sref" -> StructRef(<<1, 1>>, <<RefTo(TargetGroup)>>)
    [] kind = "srefNull" -> StructRef(<<1, 1>>, <<NullRef>>)
    [] kind = "srefBad" -> StructRef(<<1, 1>>, <<BadRef>>)
    [] kind = "srefNoCol" -> StructRef(<<1, 0>>, <<>>)
    [] kind = "srefToDs" -> StructRef(<<1, 1>>, <<RefTo(TargetNum)>>)
    [] kind = "grp" -> Grp("none", << <<NameU, Matrix>>, <<NameB, TsDs(1)>> >>)
    [] kind = "grpDeep" ->
         Grp("none", << <<NameG, Grp("none", << <<NameU, TsDs(1)>> >>)>> >>)
    [] kind = "grpTs" -> Grp("timeseries", <<>>)
    [] kind = "ts" -> TsDs(1)

VarNames == {NameA, NameB}

\* the stored orders of every set of variable names
VarLists ==
  {<<>>} \cup {<<n>> : n \in VarNames}
         \cup {<<p[1], p[2]>> : p \in {q \in VarNames \X VarNames : q[1] # q[2]}}

GenVariables ==
  UNION {{[i \in 1..Len(l) |-> <<l[i], VarNode(k[i])>>] : k \in [1..Len(l) -> VarKinds]}
         : l \in VarLists}

\* the decoder inputs: with an MCOS region holding one Time/Data pair, or without
GenFiles ==
  {McosFile(v, Targets, <<"TD", "t2", "t2">>) : v \in GenVariables}
    \cup {PlainFile(v, Targets) : v \in GenVariables}

(***************************************************************************)
(* The relabelled twin of a file: every reference index r becomes          *)
(* RelabelIndex(r), an order-preserving relabelling                        *)
(***************************************************************************)
RelabelIndex(r) == 10 * r + 20

RECURSIVE Relabel(_)
Relabel(node) ==
  IF IsGroup(node)
  THEN [node EXCEPT !.items =
          [i \in 1..Len(node.items) |-> <<node.items[i][1], Relabel(node.items[i][2])>>]]
  ELSE IF node.cls = "timeseries" /\ ~RefIdxRaises(node)
       THEN [node EXCEPT !.data[5] = RelabelIndex(node.data[5])]
       ELSE node

(***************************************************************************)
(* The state machine: a caller making read calls on one file               *)
(***************************************************************************)
\* the locals of the metadata probe before line 392: meta_blob and its item
\* size not yet read, i = 0, props = set(), start not yet bound
ScanStart == [meta_blob |-> <<>>, size |-> 1, i |-> 0, start |-> 0, props |-> {}]

TypeOK ==
  /\ pc \in {"idle", "running", "done", "outer", "inner"}
  /\ handles \in Nat

InitCommon ==
  /\ pc = "idle"
  /\ arg = <<>>
  /\ handles = 0
  /\ events = <<>>
  /\ outcome = None
  /\ outcome2 = None
  /\ seen = {}
  /\ allocs = {}
  /\ handed = {}
  /\ scan = ScanStart

\* the caller invokes read_matlab_variable(filename, var_name)
Begin(r, r2) ==
  /\ events' = r.ev
  /\ outcome' = [st |-> r.st, val |-> r.val]
  /\ outcome2' = [st |-> r2.st, val |-> r2.val]
  /\ allocs' = r.al
  /\ handed' = r.ts

Call(var_name) ==
  /\ pc = "idle"
  /\ Begin(read_matlab_variable(file, var_name), read_matlab_variable(file2, var_name))
  /\ arg' = var_name
  /\ pc' = "running"
  /\ UNCHANGED <<file, file2, handles, seen, scan>>

\* h5py.File(filename, 'r').__enter__
Acquire ==
  /\ pc = "running"
  /\ events # <<>>
  /\ Head(events) = "open"
  /\ handles' = handles + 1
  /\ events' = Tail(events)
  /\ UNCHANGED <<file, file2, pc, arg, outcome, outcome2, seen, allocs, handed, scan>>

\* h5py.File.__exit__
Release ==
  /\ pc = "running"
  /\ events # <<>>
  /\ Head(events) = "close"
  /\ handles' = handles - 1
  /\ events' = Tail(events)
  /\ UNCHANGED <<file, file2, pc, arg, outcome, outcome2, seen, allocs, handed, scan>>

\* the call returns its value
Return ==
  /\ pc = "running"
  /\ events = <<>>
  /\ outcome.st = "ok"
  /\ pc' = "done"
  /\ UNCHANGED <<file, file2, arg, handles, events, outcome, outcome2, seen, allocs, handed, scan>>

\* the call ends with an exception
Propagate ==
  /\ pc = "running"
  /\ events = <<>>
  /\ outcome.st = "raise"
  /\ pc' = "done"
  /\ UNCHANGED <<file, file2, arg, handles, events, outcome, outcome2, seen, allocs, handed, scan>>

\* the caller keeps the result and goes on to another call
Again ==
  /\ pc = "done"
  /\ Cardinality(seen) + 1 < MaxCalls
  /\ seen' = seen \cup {[name |-> arg, out |-> outcome, al |-> allocs]}
  /\ pc' = "idle"
  /\ UNCHANGED <<file, file2, arg, handles, events, outcome, outcome2, allocs, handed, scan>>

NextOnce ==
  \/ \E n \in Requested : Call(n)
  \/ Acquire
  \/ Release
  \/ Return
  \/ Propagate

\* reconstruction inputs, each file read beside its relabelled twin
InitTs ==
  /\ file \in TsFiles
  /\ file2 = Relabel(file)
  /\ InitCommon

SpecTs == InitTs /\ [][NextOnce]_vars

\* decoder inputs, one read call per run
Init ==
  /\ file \in GenFiles
  /\ file2 = file
  /\ InitCommon

Next == NextOnce

Spec == Init /\ [][Next]_vars

\* inputs for sequences of calls: a full MCOS vector of float64 payloads
CallVariables ==
  { << <<NameA, TsDs(1)>>, <<NameB, TsDs(2)>> >>,
    << <<NameB, TsDs(1)>>, <<NameA, TsDs(2)>> >>,
    << <<NameG, Grp("none", << <<NameU, TsDs(1)>> >>)>>, <<NameA, TsDs(3)>> >> }

CallFiles ==
  {McosFile(v, <<>>, <<"TD">> \o sv) :
     v \in CallVariables, sv \in [1..MaxSlots -> {"t2", "t3", "d3"}]}

InitCalls ==
  /\ file \in CallFiles
  /\ file2 = file
  /\ InitCommon

NextCalls == NextOnce \/ Again

\* a caller reading up to MaxCalls variables of one file, in any order
SpecCalls == InitCalls /\ [][NextCalls]_vars

(***************************************************************************)
(* The metadata probe, one step per loop test.  pc is "outer" at the test  *)
(* of the outer while (line 397) and "inner" at the test of the inner one  *)
(* (line 400); scan.i and scan.start are 0-based as in the code.           *)
(***************************************************************************)
\* the most chunks a metadata blob of the inputs is made of
MaxChunks == 3

\* the property names, bytes outside 32..126 (0, 31, 127) and printable
\* bytes (space, '_', '~')
Chunks == {TimeProp, DataProp, <<0>>, <<31>>, <<127>>, <<32>>, <<95>>, <<126>>}

RECURSIVE Concat(_)
Concat(chunks) == IF chunks = <<>> THEN <<>> ELSE Head(chunks) \o Concat(Tail(chunks))

ProbeBlobs == {Concat(c) : c \in UNION {[1..k -> Chunks] : k \in 0..MaxChunks}}

\* slot 0 a byte blob; an empty MCOS row; slot 0 null, dangling, or a group
ProbeFile(b) ==
  Grp("none",
      << <<RefsName, Grp("none", << <<SlotKey(0), Blob(b)>> >>)>>,
         <<SubsystemName, Grp("none", << <<McosName, McosDs(<<"TD">>)>> >>)>> >>)

ProbeFiles ==
  {ProbeFile(b) : b \in ProbeBlobs}
    \cup {McosFile(<<>>, <<>>, k) : k \in {<<>>, <<"null">>, <<"bad">>, <<"grp">>}}

\* no file has been handed to the probe yet
NoFile == Grp("none", <<>>)

ProbeReturn(st) ==
  /\ outcome' = [st |-> "ok", val |-> st]
  /\ pc' = "done"

\* the call with a file whose slot 0 makes line 392 raise: the except clause
\* returns the default
ProbeFails ==
  /\ pc = "idle"
  /\ file = NoFile
  /\ \E f \in ProbeFiles :
       /\ file' = f
       /\ file2' = f
       /\ MetaRaises(f, McosRefs(f))
  /\ ProbeReturn(DefaultStructure)
  /\ UNCHANGED <<arg, handles, events, outcome2, seen, allocs, handed, scan>>

\* the call with a file whose slot 0 can be read: lines 392-396,
\* meta_blob = f[mcos_refs[0]][:].flatten()
ProbeStarts ==
  /\ pc = "idle"
  /\ file = NoFile
  /\ \E f \in ProbeFiles :
       /\ file' = f
       /\ file2' = f
       /\ ~MetaRaises(f, McosRefs(f))
       /\ scan' = [ScanStart EXCEPT !.meta_blob = Deref(f, McosRefs(f)[1]).data,
                                    !.size = ItemSize(Deref(f, McosRefs(f)[1]).dtype)]
  /\ pc' = "outer"
  /\ UNCHANGED <<arg, handles, events, outcome, outcome2, seen, allocs, handed>>

\* lines 397, 398, 406-407: a byte outside 32..126
SkipByte ==
  /\ pc = "outer"
  /\ scan.i < Len(scan.meta_blob)
  /\ ~IsPrintable(scan.meta_blob[scan.i + 1])
  /\ scan' = [scan EXCEPT !.i = scan.i + 1]
  /\ UNCHANGED <<file, file2, pc, arg, handles, events, outcome, outcome2, seen, allocs,
                 handed>>

\* lines 397-399: start = i
OpenRun ==
  /\ pc = "outer"
  /\ scan.i < Len(scan.meta_blob)
  /\ IsPrintable(scan.meta_blob[scan.i + 1])
  /\ scan' = [scan EXCEPT !.start = scan.i]
  /\ pc' = "inner"
  /\ UNCHANGED <<file, file2, arg, handles, events, outcome, outcome2, seen, allocs, handed>>

\* lines 400-401: i += 1
ExtendRun ==
  /\ pc = "inner"
  /\ scan.i < Len(scan.meta_blob)
  /\ IsPrintable(scan.meta_blob[scan.i + 1])
  /\ scan' = [scan EXCEPT !.i = scan.i + 1]
  /\ UNCHANGED <<file, file2, pc, arg, handles, events, outcome, outcome2, seen, allocs,
                 handed>>

\* meta_blob[start:i] decoded, when it is kept
RunText == DecodeRun(SubSeq(scan.meta_blob, scan.start + 1, scan.i), scan.size)

\* lines 400, 402-405: the run has ended
CloseRun ==
  /\ pc = "inner"
  /\ ~(scan.i < Len(scan.meta_blob) /\ IsPrintable(scan.meta_blob[scan.i + 1]))
  /\ scan' = [scan EXCEPT !.props =
                IF scan.i - scan.start >= 2 /\ RunText # <<>> /\ RunText[Len(RunText)] = 95
                THEN scan.props \cup {RunText}
                ELSE scan.props]
  /\ pc' = "outer"
  /\ UNCHANGED <<file, file2, arg, handles, events, outcome, outcome2, seen, allocs, handed>>

\* lines 397, 409-416: the outer loop has ended
ProbeEnds ==
  /\ pc = "outer"
  /\ scan.i >= Len(scan.meta_blob)
  /\ ProbeReturn([has_time |-> TimeProp \in scan.props,
                  has_data |-> DataProp \in scan.props,
                  columns_per_ts |-> (IF TimeProp \in scan.props THEN 1 ELSE 0)
                                      + (IF DataProp \in scan.props THEN 1 ELSE 0)])
  /\ UNCHANGED <<file, file2, arg, handles, events, outcome2, seen, allocs, handed, scan>>

InitProbe ==
  /\ file = NoFile
  /\ file2 = NoFile
  /\ InitCommon

NextProbe ==
  \/ ProbeFails
  \/ ProbeStarts
  \/ SkipByte
  \/ OpenRun
  \/ ExtendRun
  \/ CloseRun
  \/ ProbeEnds

SpecProbe == InitProbe /\ [][NextProbe]_vars

\* the probe is a sequential loop: a step that can be taken is taken
FairProbe == SpecProbe /\ WF_vars(NextProbe)

(***************************************************************************)
(* Inputs of the candidate scan: two timeseries and MCOS payload slots of  *)
(* every kind the scan tells apart                                         *)
(***************************************************************************)
\* the longest payload vector of the candidate-scan inputs
MaxCandSlots == 2

\* null and dangling references, a (1,2) and a (3,1) float64 array, a (1,2)
\* array flagged empty, a uint8 array, a group, a (1,1) float64 array, a
\* (1,2) float32 array, a 1-D and a 3-D float64 array
CandKinds == {"null", "bad", "t2", "d3", "e2", "u1", "grp", "t1", "s2", "v2", "c2"}

CandVectors == UNION {[1..k -> CandKinds] : k \in 0..MaxCandSlots}

CandFiles ==
  {McosFile(<< <<NameA, TsDs(1)>>, <<NameB, TsDs(2)>> >>, <<>>, <<m>> \o sv) :
     m \in {"TD", "T"}, sv \in CandVectors}

InitCand ==
  /\ file \in CandFiles
  /\ file2 = file
  /\ InitCommon

\* one read call on a file of the candidate-scan inputs
SpecCand == InitCand /\ [][NextOnce]_vars

(***************************************************************************)
(* Inputs of the dataset decoder: one top-level dataset of every class,    *)
(* shape and empty flag, its elements numbered in stored order             *)
(***************************************************************************)
\* the largest axis size of the datasets
MaxDim == 3

\* the largest rank of the datasets
MaxRank == 3

DsShapes == UNION {[1..r -> 1..MaxDim] : r \in 1..MaxRank}

DsClasses ==
  {"double", "int32", "logical", "char", "cell", "struct", "timeseries", "none"}

DtypeOf(cls) ==
  CASE cls = "double" -> "f8"
    [] cls = "int32" -> "i4"
    [] cls = "logical" -> "u1"
    [] cls = "char" -> "u2"
    [] cls = "timeseries" -> "u4"
    [] OTHER -> "f8"

Iota(n) == [k \in 1..n |-> k]

DsInputs ==
  {Ds(c, DtypeOf(c), sh, Iota(Product(sh)), e) :
     c \in DsClasses, sh \in DsShapes, e \in BOOLEAN}
    \cup {[TsDs(1) EXCEPT !.empty = e] : e \in BOOLEAN}

DsFiles == {McosFile(<< <<NameA, d>> >>, <<>>, <<"TD", "t2", "t2">>) : d \in DsInputs}

InitDs ==
  /\ file \in DsFiles
  /\ file2 = file
  /\ InitCommon

\* one read call on a file holding one dataset
SpecDs == InitDs /\ [][NextOnce]_vars

\* the caller invokes list_matlab_variables(filename)
List ==
  /\ pc = "idle"
  /\ Begin(list_matlab_variables(file), list_matlab_variables(file2))
  /\ arg' = <<>>
  /\ pc' = "running"
  /\ UNCHANGED <<file, file2, handles, seen, scan>>

InitList ==
  /\ file \in GenFiles \cup DsFiles
  /\ file2 = file
  /\ InitCommon

NextList == List \/ Acquire \/ Release \/ Return

\* one listing call on a file
SpecList == InitList /\ [][NextList]_vars

(***************************************************************************)
(* Properties                                                              *)
(***************************************************************************)
HasTime(f) == _get_timeseries_structure_from_metadata(f, McosRefs(f)).has_time

HasData(f) == _get_timeseries_structure_from_metadata(f, McosRefs(f)).has_data

\* the top-level node asked for is a timeseries dataset
AskedTimeseries ==
  /\ InFile(file, arg)
  /\ IsDataset(Lookup(file, arg))
  /\ Lookup(file, arg).cls = "timeseries"

RawOutcome == [st |-> "ok", val |-> RawOf(<<"/">> \o arg, Lookup(file, arg))]

Within(al, cand) == \A n \in DOMAIN al : al[n] \in Range(cand)

Injective(al) == \A n \in DOMAIN al : \A m \in DOMAIN al : n # m => al[n] # al[m]

\* C1, as stated: every table built by _build_timeseries_allocation maps
\* timeseries paths into candidate_time_slots, gives no slot to two paths,
\* and allocates exactly min(T, |selected_time_slots|) timeseries.
C1_AsStated ==
  pc = "done" => \A al \in allocs :
    /\ Within(al, candidate_time_slots(file, McosRefs(file)))
    /\ Injective(al)
    /\ Cardinality(DOMAIN al)
         = Min2(Len(TsList(file)), Len(slot_indices(file, McosRefs(file))))

\* C1, amended: the same, the count being min(T, |selected_time_slots|) when
\* the metadata probe reports has_time and 0 when it does not.
C1_Allocation ==
  pc = "done" => \A al \in allocs :
    /\ Within(al, candidate_time_slots(file, McosRefs(file)))
    /\ Injective(al)
    /\ Cardinality(DOMAIN al)
         = IF HasTime(file)
           THEN Min2(Len(TsList(file)), Len(slot_indices(file, McosRefs(file))))
           ELSE 0

\* two timeseries allocated with stride 2
C1_Witness ==
  /\ pc = "done"
  /\ \E al \in allocs : Cardinality(DOMAIN al) = 2
  /\ Len(slot_indices(file, McosRefs(file)))
       < Len(candidate_time_slots(file, McosRefs(file)))

C3_RelabelInvariant == pc = "done" => outcome = outcome2

RECURSIVE PairsIn(_)
PairsIn(v) ==
  IF v.t = "ts" THEN {v}
  ELSE IF v.t = "struct" THEN UNION {PairsIn(v.fields[i][2]) : i \in 1..Len(v.fields)}
  ELSE IF v.t = "cell" THEN UNION {PairsIn(v.items[i]) : i \in 1..Len(v.items)}
  ELSE {}

\* the second-axis size of the payload at an MCOS slot
SecondAxis(slot) == Deref(file, McosRefs(file)[slot + 1]).shape[2]

\* C5: in every returned {Time, Data} pair Time is 1-D of length N, the
\* second-axis size of the Time payload, and N is a dimension of Data.
C5_TimeLength ==
  (pc = "done" /\ outcome.st = "ok") =>
    \A p \in PairsIn(outcome.val) :
      /\ Len(p.Time.shape) = 1
      /\ p.Time.shape[1] = SecondAxis(p.Time.slot)
      /\ SecondAxis(p.Time.slot) \in Range(p.Data.shape)

\* a pair found by the fallback, its Data payload stored with a singleton axis
C5_Witness ==
  /\ pc = "done"
  /\ AskedTimeseries
  /\ outcome.st = "ok"
  /\ outcome.val.t = "ts"
  /\ \A al \in allocs : arg \notin DOMAIN al
  /\ Len(Deref(file, McosRefs(file)[outcome.val.Data.slot + 1]).shape)
       > Len(outcome.val.Data.shape)

\* the metadata blob names Time_ and not Data_
TimeOnly(f) == HasMcos(f) /\ HasTime(f) /\ ~HasData(f)

\* C6: in a file whose metadata names Time_ and not Data_, reading a
\* timeseries gives the raw-dataset fallback, never a pair.
C6_TimeOnlyFallsBack ==
  (pc = "done" /\ AskedTimeseries /\ TimeOnly(file)) => outcome = RawOutcome

\* C7: no file handle is open once a call has ended, however it ended.
C7_HandlesReleased == pc \in {"idle", "done"} => handles = 0

\* a call that ended with an exception raised inside process_cell_array
C7_Witness ==
  /\ pc = "done"
  /\ outcome = [st |-> "raise", val |-> [t |-> "deref"]]
  /\ InFile(file, arg)
  /\ Lookup(file, arg).cls = "cell"

\* C8: a call on an existing top-level name returns a value.
C8_OnlyMissingRaises == (pc = "done" /\ InFile(file, arg)) => outcome.st = "ok"

NotFound == pc = "done" /\ ~InFile(file, arg)

\* C9: the not-found error lists exactly the top-level names that do not
\* start with '#'.
C9_AvailableNames ==
  NotFound =>
    /\ outcome.st = "raise"
    /\ outcome.val.t = "notfound"
    /\ \A k \in Range(Keys(file)) :
         k \in Range(outcome.val.available) <=> k[1] # "#"
    /\ Range(outcome.val.available) \subseteq Range(Keys(file))

\* a not-found error in a file holding two variables beside the internal names
C9_Witness ==
  /\ NotFound
  /\ Len(outcome.val.available) = 2
  /\ Len(Keys(file)) > 2

\* C10: the list of the not-found error is non-empty and alphabetically sorted.
C10_SortedNonEmpty ==
  NotFound =>
    /\ outcome.val.available # <<>>
    /\ \A i \in 1..Len(outcome.val.available) :
         \A j \in i..Len(outcome.val.available) :
           StrLeq(outcome.val.available[i], outcome.val.available[j])

\* the dataset asked for, once the call has ended
Asked == Lookup(file, arg)

AskedDataset == pc = "done" /\ InFile(file, arg) /\ IsDataset(Asked)

AskedNumeric == AskedDataset /\ Asked.cls \in NumericClasses

\* the 0-based indices of an array of this shape
Indices(shape) ==
  {idx \in [1..Len(shape) -> 0..MaxDim] : \A k \in 1..Len(shape) : idx[k] < shape[k]}

\* v has the axes of ds reversed, and v[i1, ..., in] = ds[in, ..., i1]
IsTransposeOf(v, ds) ==
  /\ v.t = "array"
  /\ v.shape = Reverse(ds.shape)
  /\ \A idx \in Indices(v.shape) :
       v.data[Ravel(idx, v.shape) + 1] = ds.data[Ravel(Reverse(idx), ds.shape) + 1]

\* one axis, or at least two axes that are not singleton
KeepsRank(shape) == Len(shape) = 1 \/ CountOnes(shape) < Len(shape) - 1

\* C11, as stated: every numeric dataset of shape (dn, ..., d1) decodes to
\* an array of shape (d1, ..., dn) whose element at (i1, ..., in) is the raw
\* element at (in, ..., i1).
C11_AsStated ==
  AskedNumeric => outcome.st = "ok" /\ IsTransposeOf(outcome.val, Asked)

\* C11, amended: the same for the numeric datasets that are not flagged
\* empty and are 1-D or have at least two non-singleton axes.
C11_Transpose ==
  (AskedNumeric /\ ~IsEmptyFlag(Asked) /\ KeepsRank(Asked.shape)) =>
    outcome.st = "ok" /\ IsTransposeOf(outcome.val, Asked)

\* a 3-D dataset with two non-singleton axes, returned with its axes reversed
C11_Witness ==
  /\ AskedNumeric
  /\ ~IsEmptyFlag(Asked)
  /\ Len(Asked.shape) = 3
  /\ CountOnes(Asked.shape) = 1
  /\ outcome.val.shape # Asked.shape

\* C12, as stated: a numeric dataset that is 1-D or has at least ndim - 1
\* singleton axes decodes to an array of rank exactly 1.
C12_AsStated ==
  (AskedNumeric
     /\ (Len(Asked.shape) = 1 \/ CountOnes(Asked.shape) >= Len(Asked.shape) - 1)) =>
    outcome.st = "ok" /\ Len(outcome.val.shape) = 1

\* C12, amended: a numeric dataset not flagged empty that is 1-D or has
\* exactly ndim - 1 singleton axes decodes to a rank-1 array holding the
\* stored elements in stored order; one of two or more axes that are all
\* singleton decodes to a rank-0 array.
C12_Squeeze ==
  (AskedNumeric /\ ~IsEmptyFlag(Asked)) =>
    /\ (Len(Asked.shape) = 1 \/ CountOnes(Asked.shape) = Len(Asked.shape) - 1) =>
         /\ outcome.st = "ok"
         /\ Len(outcome.val.shape) = 1
         /\ outcome.val.shape[1] = Product(Asked.shape)
         /\ outcome.val.data = Asked.data
    /\ (Len(Asked.shape) >= 2 /\ CountOnes(Asked.shape) = Len(Asked.shape)) =>
         outcome.st = "ok" /\ outcome.val.shape = <<>>

\* a (1, 3, 1) dataset returned as a vector of 3 elements
C12_Witness ==
  /\ AskedNumeric
  /\ ~IsEmptyFlag(Asked)
  /\ Asked.shape = <<1, 3, 1>>
  /\ outcome.val.shape = <<3>>

\* C13: every dataset whose MATLAB_empty attribute is non-zero decodes to
\* the empty value, whatever its MATLAB class and declared shape.
C13_EmptyFirst ==
  (AskedDataset /\ IsEmptyFlag(Asked)) => outcome = [st |-> "ok", val |-> EmptyArray]

\* the paths the file-wide enumeration records
EnumeratedPaths(f) == {TsList(f)[i][1] : i \in 1..Len(TsList(f))}

\* C14: every composite path process_group hands to process_timeseries for
\* a timeseries dataset with a readable reference index is a path the
\* file-wide enumeration recorded, whether the group was reached by name or
\* through an object reference.
C14_CompositePath ==
  pc = "done" =>
    \A p \in handed : ~RefIdxRaises(Lookup(file, p)) => p \in EnumeratedPaths(file)

\* a cell dataset of references, once the call on it has ended
AskedCell ==
  /\ AskedDataset
  /\ ~IsEmptyFlag(Asked)
  /\ Asked.cls = "cell"
  /\ Asked.dtype = "ref"

\* what entry i of the returned list has to be for the reference ref
EntryFor(ref, v) ==
  IF ~Truthy(ref) \/ DerefRaises(file, ref) THEN v = None
  ELSE v = Decode(file, <<"/">> \o ref.p, Deref(file, ref)).val

\* C15: a cell dataset of k references decodes to a list of k entries in
\* stored order, entry i being the decoded target of reference i, and a null
\* or malformed entry an empty placeholder that does not stop the decoding.
C15_CellEntries ==
  AskedCell =>
    /\ outcome.st = "ok"
    /\ outcome.val.t = "cell"
    /\ Len(outcome.val.items) = Len(Asked.data)
    /\ \A i \in 1..Len(Asked.data) : EntryFor(Asked.data[i], outcome.val.items[i])

\* the listing returned, once the call has ended
Listed == pc = "done" /\ outcome.st = "ok" /\ outcome.val.t = "listing"

\* the positions of the entries of the listing stored under the name k
EntriesOf(k) ==
  {i \in 1..Len(outcome.val.entries) : outcome.val.entries[i][1] = k}

\* the class the listing has to report for a node
ReportedClass(node) ==
  IF node.cls # "none" THEN node.cls
  ELSE IF IsGroup(node) THEN "struct" ELSE "unknown"

\* C16: list_matlab_variables returns exactly one entry for each top-level
\* name that does not start with '#' and none for a name that does; each
\* entry reports the node's MATLAB_class, a group without the attribute
\* being reported as struct.
C16_Listing ==
  pc = "done" =>
    /\ Listed
    /\ \A i \in 1..Len(file.items) :
         IF file.items[i][1][1] = "#"
         THEN EntriesOf(file.items[i][1]) = {}
         ELSE /\ Cardinality(EntriesOf(file.items[i][1])) = 1
              /\ \A e \in EntriesOf(file.items[i][1]) :
                   outcome.val.entries[e][2].cls = ReportedClass(file.items[i][2])
    /\ \A e \in 1..Len(outcome.val.entries) :
         \E i \in 1..Len(file.items) : file.items[i][1] = outcome.val.entries[e][1]

\* a listing of two variables, one of them a group without MATLAB_class
C16_Witness ==
  /\ Listed
  /\ Len(outcome.val.entries) = 2
  /\ \E i \in 1..Len(file.items) :
       /\ IsGroup(file.items[i][2])
       /\ file.items[i][2].cls = "none"
       /\ file.items[i][1][1] # "#"

\* the reference index of the timeseries at a path
RefOf(path) == Elem2(Lookup(file, path), 0, 4)

\* the 1-based position of the i-th enumerated timeseries in the list
\* sorted by reference index, ties kept in enumeration order
SortedPosition(ts_list, i) ==
  1 + Cardinality({j \in 1..Len(ts_list) :
                     \/ ts_list[j][2] < ts_list[i][2]
                     \/ ts_list[j][2] = ts_list[i][2] /\ j < i})

\* the table gives the timeseries at sorted position i the i-th selected slot
FollowsSortedOrder(al, ts_list, selected) ==
  \A i \in 1..Len(ts_list) :
    ts_list[i][1] \in DOMAIN al =>
      /\ SortedPosition(ts_list, i) <= Len(selected)
      /\ al[ts_list[i][1]] = selected[SortedPosition(ts_list, i)]

\* C17: the timeseries at position i of the list sorted ascending by
\* reference index is assigned selected_time_slots[i], so of two allocated
\* timeseries the one with the smaller reference index has the smaller slot.
C17_OrderPreserving ==
  pc = "done" => \A al \in allocs :
    /\ FollowsSortedOrder(al, TsList(file), slot_indices(file, McosRefs(file)))
    /\ \A n \in DOMAIN al : \A m \in DOMAIN al :
         RefOf(n) < RefOf(m) => al[n] < al[m]

\* two timeseries allocated against their enumeration order
C17_Witness ==
  /\ pc = "done"
  /\ \E al \in allocs :
       /\ {NameA, NameB} \subseteq DOMAIN al
       /\ RefOf(NameB) < RefOf(NameA)
       /\ al[NameB] < al[NameA]
       /\ TsList(file)[1][1] = NameA

\* the metadata blob at slot 0 parses and does not name Time_
NoTimeProperty(f) == HasMcos(f) /\ ~MetaRaises(f, McosRefs(f)) /\ ~HasTime(f)

\* C18: when the metadata blob parses and does not name Time_, no read of a
\* timeseries of the file returns a {Time, Data} pair.
C18_NoTimeNoPair ==
  (pc = "done" /\ NoTimeProperty(file) /\ outcome.st = "ok") =>
    PairsIn(outcome.val) = {}

\* the timeseries asked for was enumerated and the table built has no slot for it
AskedUnallocated ==
  /\ AskedTimeseries
  /\ arg \in EnumeratedPaths(file)
  /\ HasMcos(file)
  /\ HasTime(file)
  /\ \A al \in allocs : arg \notin DOMAIN al

\* C19: a timeseries whose sorted position is beyond the selected slots is
\* unallocated, and no read of it returns a {Time, Data} pair.
C19_UnallocatedNoPair ==
  (pc = "done" /\ AskedUnallocated) => outcome.val.t # "ts"

\* slot d (0-based) is non-null, resolves to a float64 dataset and has n
\* among its dimensions
Qualifies(f, refs, d, n) ==
  /\ d < Len(refs)
  /\ Truthy(refs[d + 1])
  /\ ~DerefRaises(f, refs[d + 1])
  /\ IsDataset(Deref(f, refs[d + 1]))
  /\ Deref(f, refs[d + 1]).dtype = "f8"
  /\ n \in Range(Deref(f, refs[d + 1]).shape)

\* the qualifying slots among s + 1 .. s + 19
QualifyingAfter(f, refs, s) ==
  {d \in (s + 1)..(s + 19) : Qualifies(f, refs, d, SecondAxis(s))}

\* the pair of Time slot s and the lowest qualifying slot after it
PairsLowest(v, q, s) ==
  /\ v.t = "ts"
  /\ v.Time.slot = s
  /\ v.Data.slot \in q
  /\ \A d \in q : v.Data.slot <= d

\* C20: for an allocated Time slot s, the Data payload is the lowest slot
\* among s + 1 .. s + 19 that is non-null, resolves to a float64 dataset and
\* has N among its dimensions.
C20_LowestDataSlot ==
  (pc = "done" /\ AskedTimeseries) =>
    \A al \in allocs :
      (arg \in DOMAIN al /\ QualifyingAfter(file, McosRefs(file), al[arg]) # {}) =>
        /\ outcome.st = "ok"
        /\ PairsLowest(outcome.val, QualifyingAfter(file, McosRefs(file), al[arg]),
                       al[arg])

\* the elements of s at positions 0, 2, 4, ... (0-based)
EvenPositions(s) ==
  [k \in 1..Cardinality({i \in 1..Len(s) : i % 2 = 1}) |-> s[2 * k - 1]]

\* columns_per_ts >= 2 and |candidate_time_slots| >= 1.5 * T
StrideCondition(f) ==
  /\ _get_timeseries_structure_from_metadata(f, McosRefs(f)).columns_per_ts >= 2
  /\ 2 * Len(candidate_time_slots(f, McosRefs(f))) >= 3 * Len(TsList(f))

\* C21, as stated: selected_time_slots is the even-position elements of
\* candidate_time_slots exactly when columns_per_ts >= 2 and
\* |candidate_time_slots| >= 1.5 * T, and all of candidate_time_slots in
\* every other case.
C21_AsStated ==
  (pc = "done" /\ HasMcos(file)) =>
    slot_indices(file, McosRefs(file))
      = IF StrideCondition(file)
        THEN EvenPositions(candidate_time_slots(file, McosRefs(file)))
        ELSE candidate_time_slots(file, McosRefs(file))

\* C21, amended: the even-position elements are taken exactly when at least
\* one timeseries was enumerated, columns_per_ts >= 2 and
\* |candidate_time_slots| >= 1.5 * T; all of candidate_time_slots otherwise.
C21_Stride ==
  (pc = "done" /\ HasMcos(file)) =>
    slot_indices(file, McosRefs(file))
      = IF Len(TsList(file)) >= 1 /\ StrideCondition(file)
        THEN EvenPositions(candidate_time_slots(file, McosRefs(file)))
        ELSE candidate_time_slots(file, McosRefs(file))

\* two timeseries, both properties named, three candidates: the stride is
\* taken and the table holds the first and the third candidate
C21_Witness ==
  /\ pc = "done"
  /\ Len(TsList(file)) = 2
  /\ Len(candidate_time_slots(file, McosRefs(file))) = 3
  /\ \E al \in allocs :
       {al[n] : n \in DOMAIN al}
         = {candidate_time_slots(file, McosRefs(file))[1],
            candidate_time_slots(file, McosRefs(file))[3]}

\* the ascending list of the elements of a set of integers
Ascending(S) ==
  [k \in 1..Cardinality(S) |-> CHOOSE x \in S : Cardinality({y \in S : y < x}) = k - 1]

\* slot i holds a non-null reference that resolves to a dataset, not flagged
\* MATLAB_empty, of element kind float64 and shape (1, N) with N >= 2
IsTimeShaped(f, i) ==
  /\ McosRefs(f)[i + 1].k = "obj"
  /\ InFile(f, McosRefs(f)[i + 1].p)
  /\ Lookup(f, McosRefs(f)[i + 1].p).kind = "dataset"
  /\ ~Lookup(f, McosRefs(f)[i + 1].p).empty
  /\ Lookup(f, McosRefs(f)[i + 1].p).dtype = "f8"
  /\ Len(Lookup(f, McosRefs(f)[i + 1].p).shape) = 2
  /\ Lookup(f, McosRefs(f)[i + 1].p).shape[1] = 1
  /\ Lookup(f, McosRefs(f)[i + 1].p).shape[2] >= 2

TimeShapedSlots(f) == {i \in 1..(Len(McosRefs(f)) - 1) : IsTimeShaped(f, i)}

\* C22: candidate_time_slots is the ascending list of the slots 1..K whose
\* reference is non-null and resolves to a dataset that is not flagged empty,
\* is float64 and has shape (1, N), N >= 2; other slots, and slots whose
\* inspection raises, are passed over, and every table built maps into it.
C22_Candidates ==
  (pc = "done" /\ AskedTimeseries /\ HasTime(file)) =>
    /\ candidate_time_slots(file, McosRefs(file)) = Ascending(TimeShapedSlots(file))
    /\ allocs # {}
    /\ \A al \in allocs : \A n \in DOMAIN al : al[n] \in TimeShapedSlots(file)

\* a dangling reference or a group at slot 1, passed over, and the timeseries
\* with the lowest reference index allocated to slot 2
C22_Witness ==
  /\ pc = "done"
  /\ AskedTimeseries
  /\ HasTime(file)
  /\ Len(McosRefs(file)) = 3
  /\ \/ McosRefs(file)[2].k = "bad"
     \/ /\ McosRefs(file)[2].k = "obj"
        /\ IsGroup(Lookup(file, McosRefs(file)[2].p))
  /\ \E al \in allocs : NameA \in DOMAIN al /\ al[NameA] = 2

\* blob[s..e] (1-based) is a maximal run of bytes 32..126
IsMaximalRun(blob, s, e) ==
  /\ \A k \in s..e : blob[k] \in 32..126
  /\ s = 1 \/ blob[s - 1] \notin 32..126
  /\ e = Len(blob) \/ blob[e + 1] \notin 32..126

\* word is the whole of a maximal run of length >= 2
OccursAsRun(blob, word) ==
  \E s \in 1..Len(blob) : \E e \in (s + 1)..Len(blob) :
    IsMaximalRun(blob, s, e) /\ SubSeq(blob, s, e) = word

\* f[mcos_refs[0]][:].flatten() of the file the probe was given
MetaBlob == Deref(file, McosRefs(file)[1]).data

\* slot 0 dereferences to a byte blob
ByteBlobAtSlot0 ==
  /\ ~MetaRaises(file, McosRefs(file))
  /\ Deref(file, McosRefs(file)[1]).dtype = "u1"

\* what the claim says the probe returns
ProbeExpected ==
  IF ByteBlobAtSlot0
  THEN [has_time |-> OccursAsRun(MetaBlob, TimeProp),
        has_data |-> OccursAsRun(MetaBlob, DataProp),
        columns_per_ts |-> (IF OccursAsRun(MetaBlob, TimeProp) THEN 1 ELSE 0)
                            + (IF OccursAsRun(MetaBlob, DataProp) THEN 1 ELSE 0)]
  ELSE [has_time |-> TRUE, has_data |-> TRUE, columns_per_ts |-> 2]

\* C23: the metadata probe terminates on every byte blob; it returns has_time
\* (has_data) true exactly when Time_ (Data_) is the whole of a maximal run
\* of bytes 32..126 of length >= 2, columns_per_ts being their count, and
\* the default has_time = has_data = true, columns_per_ts = 2 when slot 0
\* cannot be read.
C23_Probe ==
  /\ <>(pc = "done")
  /\ [](pc = "done" =>
          /\ outcome = [st |-> "ok", val |-> ProbeExpected]
          /\ outcome.val = _get_timeseries_structure_from_metadata(file, McosRefs(file)))

\* the probe has ended on a byte blob in which Time_ is only part of a longer
\* run, and reports neither property
C23_Witness ==
  /\ pc = "done"
  /\ ByteBlobAtSlot0
  /\ ~outcome.val.has_time
  /\ outcome.val.columns_per_ts = 0
  /\ \E k \in 1..(Len(MetaBlob) - 4) : SubSeq(MetaBlob, k, k + 4) = TimeProp

\* every path under a group that is reached through names not starting with '#'
RECURSIVE PathsUnder(_, _)
PathsUnder(group, prefix) ==
  UNION {IF StartsWithHash(group.items[k][1]) THEN {}
         ELSE {prefix \o group.items[k][1]}
                \cup (IF IsGroup(group.items[k][2])
                      THEN PathsUnder(group.items[k][2],
                                      prefix \o group.items[k][1] \o <<"/">>)
                      ELSE {}) : k \in 1..Len(group.items)}

\* the datasets of class timeseries reachable through non-internal names
ReachableTimeseries(f) ==
  {p \in PathsUnder(f, <<>>) :
     IsDataset(Lookup(f, p)) /\ Lookup(f, p).cls = "timeseries"}

\* those of them whose element [0, 4] can be read
ReadableTimeseries(f) == {p \in ReachableTimeseries(f) : ~RefIdxRaises(Lookup(f, p))}

KeyPosition(group, key) == CHOOSE j \in 1..Len(group.items) : group.items[j][1] = key

\* depth-first order in each group's key order, p and q being the component
\* lists of two different datasets
RECURSIVE VisitedBefore(_, _, _)
VisitedBefore(group, p, q) ==
  IF Head(p) = Head(q) THEN VisitedBefore(Child(group, Head(p)), Tail(p), Tail(q))
  ELSE KeyPosition(group, Head(p)) < KeyPosition(group, Head(q))

\* ts_list holds, in visiting order and once each, the members of `wanted`
\* with the integer at their element [0, 4]
Enumerates(f, ts_list, wanted) ==
  /\ {ts_list[k][1] : k \in 1..Len(ts_list)} = wanted
  /\ Len(ts_list) = Cardinality(wanted)
  /\ \A k \in 1..Len(ts_list) :
       /\ ~Elem2Raises(Lookup(f, ts_list[k][1]), 0, 4)
       /\ ts_list[k][2] = Elem2(Lookup(f, ts_list[k][1]), 0, 4)
  /\ \A j \in 1..Len(ts_list) : \A k \in (j + 1)..Len(ts_list) :
       VisitedBefore(f, SplitPath(ts_list[j][1], <<>>), SplitPath(ts_list[k][1], <<>>))

\* C24, as stated: the enumeration visits the file depth-first in each
\* group's key order, skips names starting with '#', and records exactly one
\* (path, element [0,4]) pair for every dataset of class timeseries reachable
\* through non-internal names, leaving none out.
C24_AsStated ==
  (pc = "done" /\ HasMcos(file) /\ HasTime(file)) =>
    Enumerates(file, TsList(file), ReachableTimeseries(file))

\* C24, amended: the same for the timeseries datasets whose element [0,4] can
\* be read; the others are passed over and are not in the list.
C24_Enumeration ==
  (pc = "done" /\ HasMcos(file) /\ HasTime(file)) =>
    /\ Enumerates(file, TsList(file), ReadableTimeseries(file))
    /\ \A al \in allocs : DOMAIN al \subseteq ReadableTimeseries(file)

\* three timeseries at three depths enumerated, the one under '#refs#' not
C24_Witness ==
  /\ pc = "done"
  /\ HasMcos(file)
  /\ HasTime(file)
  /\ Len(TsList(file)) = 3
  /\ \E k \in 1..3 : Len(SplitPath(TsList(file)[k][1], <<>>)) = 3
  /\ InFile(file, JoinPath(RefsName, TargetNum))
  /\ Lookup(file, JoinPath(RefsName, TargetNum)).cls = "timeseries"
  /\ \E al \in allocs : Cardinality(DOMAIN al) = 3

\* C25: a dataset that has no MATLAB_class attribute decodes to the empty
\* value, as a dataset whose empty flag is set does.
C25_AbsentClassEmpty ==
  (AskedDataset /\ Asked.cls = "none") => outcome = [st |-> "ok", val |-> EmptyArray]

\* a result that is a {Time, Data} pair
IsPair(out) == out.st = "ok" /\ out.val.t = "ts"

\* the MCOS slots a pair was read from
SlotsOf(out) == {out.val.Time.slot, out.val.Data.slot}

\* C26: when two different timeseries of one file both decode to a pair, the
\* slot returned as Data for one is neither the Time nor the Data slot of the
\* other.
C26_DisjointSlots ==
  (pc = "done" /\ AskedTimeseries /\ IsPair(outcome)) =>
    \A c \in seen :
      (c.name # arg /\ IsPair(c.out)) =>
        /\ outcome.val.Data.slot \notin SlotsOf(c.out)
        /\ c.out.val.Data.slot \notin SlotsOf(outcome)

====
